---- MODULE Spec2Model ----
(***************************************************************************)
(* WinCNC-History: the log parser of lib/util/parser.py (History.from_file, *)
(* Session, Command) and the identity lookups the GUI makes on its result.  *)
(*                                                                          *)
(* Representation.                                                          *)
(*  - A log line is a record of the texts the parser looks at: `head` is    *)
(*    the text up to the first separator (the marker word, the header word  *)
(*    or the file name of a data row), `nf` the number of fields the line   *)
(*    splits into (by ', ' for a marker line, by csv.reader for a data      *)
(*    row), and the time, date, status, rapid, feed and laser fields.       *)
(*  - A time text is a tuple <<H, M, S>>, a date text <<m, d, y>>, a        *)
(*    duration text <<mm, ss>>; a tuple of any other shape or range is a    *)
(*    text that strptime / int() reject.                                    *)
(*  - A datetime is the number of seconds since 01-01-23 00:00:00; the      *)
(*    model's calendar covers January 2023.  A timedelta is a number of     *)
(*    seconds, except the two averages (avg_delta, avg_between_delta): a    *)
(*    timedelta divided by an int is floored to the microsecond, so these   *)
(*    are numbers of microseconds.                                          *)
(*  - An optional value (None or a value) is the empty or the one-element   *)
(*    sequence.                                                             *)
(*  - Every Session and Command object carries `oid`, its object identity:  *)
(*    the pair <<number of the from_file call, number of the line>> that    *)
(*    created it.  Command defines no __hash__, so hash(command) is the     *)
(*    identity; Session.__hash__ hashes the formatted start time, and the   *)
(*    string hash is taken to be collision free on the formatted strings.   *)
(***************************************************************************)
EXTENDS Integers, Sequences, FiniteSets, TLC

VARIABLES file, change_hours, change_minutes, calls, history, lookup, ses

vars == <<file, change_hours, change_minutes, calls, history, lookup, ses>>

\* Bounds of the model.
MaxLines == 4
MaxParses == 2
MaxCmds == 4

None == <<>>
Some(x) == <<x>>

\* ------------------------------------------------------------------------
\* Texts
\* ------------------------------------------------------------------------

\* str.lower() on the head and status texts of the model.
Lower(s) ==
  CASE s = "File Name" -> "file name"
    [] s = "OK" -> "ok"
    [] s = "Ok" -> "ok"
    [] s = "Aborted" -> "aborted"
    [] s = "Starting" -> "starting"
    [] s = "STARTING" -> "starting"
    [] s = "Exiting" -> "exiting"
    [] s = "G0X1Y1" -> "g0x1y1"
    [] s = "C:\\WinCNC\\HOME.TAP" -> "c:\\wincnc\\home.tap"
    [] s = "C:\\Jobs\\Part.tap" -> "c:\\jobs\\part.tap"
    [] OTHER -> s

\* str.startswith(p) on lower-cased head texts.
StartsWith(s, p) ==
  CASE s = "file name" -> p = "file name"
    [] s = "starting" -> p = "starting"
    [] s = "exiting" -> p = "exiting"
    [] s = "c:\\wincnc\\home.tap" -> p \in {"c:\\", "c:\\wincnc"}
    [] s = "c:\\jobs\\part.tap" -> p = "c:\\"
    [] OTHER -> FALSE

\* `p in s` on lower-cased status texts.
Contains(s, p) ==
  CASE s = "ok" -> p \in {"ok", "o", "k"}
    [] s = "aborted" -> p \in {"aborted", "abort", "ted"}
    [] OTHER -> FALSE

\* ------------------------------------------------------------------------
\* Time utilities
\* ------------------------------------------------------------------------

\* datetime.strptime(s, '%m-%d-%y %H:%M:%S') accepts the text.
ValidStamp(date, time) ==
  /\ Len(date) = 3 /\ date[1] = 1 /\ date[2] \in 1..31 /\ date[3] = 23
  /\ Len(time) = 3 /\ time[1] \in 0..23 /\ time[2] \in 0..59 /\ time[3] \in 0..61

\* parse_datetime adjusting by change_hours only.
parse_datetime_hours_only(date, time, ch, cm) ==
  IF ~ValidStamp(date, time) THEN None
  ELSE LET dt == (date[2] - 1) * 86400 + time[1] * 3600 + time[2] * 60 + time[3]
       IN  IF ch # 0 \/ cm # 0 THEN Some(dt + ch * 3600) ELSE Some(dt)

\* parse_datetime: None stands for the ValueError of strptime.
parse_datetime(date, time, ch, cm) ==
  IF ~ValidStamp(date, time) THEN None
  ELSE LET dt == (date[2] - 1) * 86400 + time[1] * 3600 + time[2] * 60 + time[3]
       IN  IF ch # 0 \/ cm # 0 THEN Some(dt + ch * 3600 + cm * 60) ELSE Some(dt)

\* time_str(dt): '%m-%d-%y %I:%M:%S%p' lower-cased, as the tuple of its parts.
time_str(dt) ==
  IF dt = None THEN <<>>
  ELSE LET t == dt[1]
           day == t \div 86400
           sec == t % 86400
           h == sec \div 3600
           h12 == IF h % 12 = 0 THEN 12 ELSE h % 12
       IN  <<1, day + 1, 23, h12, (sec % 3600) \div 60, sec % 60,
             IF h < 12 THEN "am" ELSE "pm">>

\* timedelta_from_str: None stands for the ValueError of the unpacking / int().
timedelta_from_str(durstr) ==
  IF Len(durstr) # 2 THEN None ELSE Some(durstr[1] * 60 + durstr[2])

\* ------------------------------------------------------------------------
\* Command
\* ------------------------------------------------------------------------

\* Command.row_len == len(Command.header)
row_len == 42

\* calc_duration leaving the laser time out.
Command_calc_duration_no_laser(rapid, feed, laser) ==
  LET r == timedelta_from_str(rapid)
      f == timedelta_from_str(feed)
      l == timedelta_from_str(laser)
  IN  IF r = None \/ f = None \/ l = None THEN None
      ELSE Some(r[1] + f[1])

\* Command.calc_duration: rapid + feed + laser, None when a field is rejected.
Command_calc_duration(rapid, feed, laser) ==
  LET r == timedelta_from_str(rapid)
      f == timedelta_from_str(feed)
      l == timedelta_from_str(laser)
  IN  IF r = None \/ f = None \/ l = None THEN None
      ELSE Some(r[1] + f[1] + l[1])

\* from_line with the field count off by one (a header of 41 names).
from_line_short(line, oid, ch, cm) ==
  IF line.nf # row_len - 1 THEN [err |-> "TypeError", cmd |-> None]
  ELSE LET dur == Command_calc_duration(line.rapid, line.feed, line.laser)
           endt == parse_datetime(line.date, line.time, ch, cm)
       IN  IF dur = None \/ endt = None THEN [err |-> "ValueError", cmd |-> None]
           ELSE [err |-> "",
                 cmd |-> Some([oid |-> oid,
                               filename |-> Lower(line.head),
                               time |-> line.time,
                               date |-> line.date,
                               status |-> line.status,
                               rapid |-> line.rapid,
                               feed |-> line.feed,
                               laser |-> line.laser,
                               duration_delta |-> dur[1],
                               end_time |-> endt[1],
                               start_time |-> endt[1] - dur[1]])]

\* Command.from_line: csv.reader splits the line, cls(*row) binds the fields
\* to the parameters of Command.__init__ (TypeError unless there are row_len
\* of them), then __init__ derives duration, end_time and start_time.
from_line(line, oid, ch, cm) ==
  IF line.nf # row_len THEN [err |-> "TypeError", cmd |-> None]
  ELSE LET dur == Command_calc_duration(line.rapid, line.feed, line.laser)
           endt == parse_datetime(line.date, line.time, ch, cm)
       IN  IF dur = None \/ endt = None THEN [err |-> "ValueError", cmd |-> None]
           ELSE [err |-> "",
                 cmd |-> Some([oid |-> oid,
                               filename |-> Lower(line.head),
                               time |-> line.time,
                               date |-> line.date,
                               status |-> line.status,
                               rapid |-> line.rapid,
                               feed |-> line.feed,
                               laser |-> line.laser,
                               duration_delta |-> dur[1],
                               end_time |-> endt[1],
                               start_time |-> endt[1] - dur[1]])]

\* hash(command): Command defines neither __hash__ nor __eq__.
Command_hash(cmd) == cmd.oid

is_file(cmd) == StartsWith(Lower(cmd.filename), "c:\\")

is_command_file(cmd) == StartsWith(Lower(cmd.filename), "c:\\wincnc")

is_command(cmd) == ~is_file(cmd)

is_user_file(cmd) == is_file(cmd) /\ ~is_command_file(cmd)

\* is_error looking for 'ok' in the status as written.
is_error_case_sensitive(cmd) == ~Contains(cmd.status, "ok")

\* Command.is_error
is_error(cmd) == ~Contains(Lower(cmd.status), "ok")

\* ------------------------------------------------------------------------
\* Session
\* ------------------------------------------------------------------------

\* Session.calc_duration
\* calc_duration counting the last command only.
calc_duration_last(cmds) ==
  IF cmds = <<>> THEN 0 ELSE cmds[Len(cmds)].duration_delta

RECURSIVE calc_duration(_)
calc_duration(cmds) ==
  IF cmds = <<>> THEN 0
  ELSE calc_duration(SubSeq(cmds, 1, Len(cmds) - 1)) + cmds[Len(cmds)].duration_delta

\* between_time leaving its loop after the first pair it looks at.
between_time_one_pair(cmds) ==
  IF Len(cmds) <= 1 THEN 0
  ELSE cmds[Len(cmds)].start_time - cmds[Len(cmds) - 1].end_time

\* Session.between_time: the loop runs i from len-1 down to 1 (0-based).
RECURSIVE between_time(_)
between_time(cmds) ==
  IF Len(cmds) <= 1 THEN 0
  ELSE (cmds[Len(cmds)].start_time - cmds[Len(cmds) - 1].end_time)
       + between_time(SubSeq(cmds, 1, Len(cmds) - 1))

\* calc_end_of_day_duration measuring from the start of the last command.
calc_end_of_day_duration_from_start(s) ==
  IF ~(s.cmds # <<>> /\ s.end_time # None) THEN 0
  ELSE s.end_time[1] - s.cmds[Len(s.cmds)].start_time

\* Session.calc_end_of_day_duration
calc_end_of_day_duration(s) ==
  IF ~(s.cmds # <<>> /\ s.end_time # None) THEN 0
  ELSE s.end_time[1] - s.cmds[Len(s.cmds)].end_time

\* Session.recalculate_duration
recalculate_duration(s) ==
  [s EXCEPT !.duration_delta = calc_duration(s.cmds),
            !.end_of_day_delta = calc_end_of_day_duration(s)]

\* Session.runtime_info raises TypeError: `self.end_time - self.start_time`
\* with an end_time and no start_time.
runtime_info_raises(s) == s.end_time # None /\ s.start_time = None

\* timedelta // int floored to the second.
timedelta_floordiv_seconds(delta, n) == (delta \div n) * 1000000

\* timedelta // int rounded up.
timedelta_floordiv_ceil(delta, n) == 0 - ((0 - delta * 1000000) \div n)

\* timedelta // int: the quotient floored to the microsecond, in microseconds.
timedelta_floordiv(delta, n) == (delta * 1000000) \div n

\* runtime_info measuring actual_delta from the start of the first command.
recalculate_runtime_info_from_first(s) ==
  LET length == Len(s.cmds)
      between_delta == between_time(s.cmds)
  IN  IF runtime_info_raises(s) THEN s
      ELSE [s EXCEPT
         !.avg_delta = IF length # 0 THEN timedelta_floordiv(s.duration_delta, length)
                       ELSE 0,
         !.actual_delta = IF s.end_time # None
                          THEN IF length # 0 THEN s.end_time[1] - s.cmds[1].start_time
                               ELSE s.end_time[1] - s.start_time[1]
                          ELSE 0,
         !.between_delta = between_delta,
         !.avg_between_delta = IF between_delta # 0 /\ length > 1
                               THEN timedelta_floordiv(between_delta, length - 1)
                               ELSE 0]

\* Session.runtime_info and recalculate_runtime_info; nothing is set when
\* runtime_info raises.
recalculate_runtime_info(s) ==
  LET length == Len(s.cmds)
      between_delta == between_time(s.cmds)
  IN  IF runtime_info_raises(s) THEN s
      ELSE [s EXCEPT
         !.avg_delta = IF length # 0 THEN timedelta_floordiv(s.duration_delta, length)
                       ELSE 0,
         !.actual_delta = IF s.end_time # None
                          THEN s.end_time[1] - s.start_time[1] ELSE 0,
         !.between_delta = between_delta,
         !.avg_between_delta = IF between_delta # 0 /\ length > 1
                               THEN timedelta_floordiv(between_delta, length - 1)
                               ELSE 0]

\* recalculate_counts counting every file as a user file.
recalculate_counts_all_files(s) ==
  LET Count(P(_)) == Cardinality({i \in 1..Len(s.cmds) : P(s.cmds[i])})
      OnlyCommandFile(c) == ~is_command(c) /\ is_command_file(c)
  IN  [s EXCEPT !.count_commands = Count(is_command),
                !.count_command_files = Count(OnlyCommandFile),
                !.count_files = Count(is_file)]

\* Session.recalculate_counts
recalculate_counts(s) ==
  LET Count(P(_)) == Cardinality({i \in 1..Len(s.cmds) : P(s.cmds[i])})
      OnlyCommandFile(c) == ~is_command(c) /\ is_command_file(c)
      OnlyUserFile(c) == ~is_command(c) /\ ~is_command_file(c) /\ is_user_file(c)
  IN  [s EXCEPT !.count_commands = Count(is_command),
                !.count_command_files = Count(OnlyCommandFile),
                !.count_files = Count(OnlyUserFile)]

\* recalculate calling recalculate_runtime_info before recalculate_duration.
recalculate_info_first(s) ==
  IF runtime_info_raises(s) THEN s
  ELSE recalculate_counts(recalculate_duration(recalculate_runtime_info(s)))

\* Session.recalculate; the TypeError of runtime_info leaves the method after
\* recalculate_duration.
recalculate(s) ==
  IF runtime_info_raises(s) THEN recalculate_duration(s)
  ELSE recalculate_counts(recalculate_runtime_info(recalculate_duration(s)))

\* Session.__init__(iterable, start_time, end_time), times already parsed.
Session(cmds, start_time, end_time, oid) ==
  recalculate([oid |-> oid, cmds |-> cmds,
               start_time |-> start_time, end_time |-> end_time,
               duration_delta |-> 0, actual_delta |-> 0, end_of_day_delta |-> 0,
               avg_delta |-> 0, between_delta |-> 0, avg_between_delta |-> 0,
               count_commands |-> 0, count_files |-> 0, count_command_files |-> 0])

\* A Session hashed by its identity, as an object without __hash__ is.
Session_hash_identity(s) == s.oid

\* Session.__hash__: hash(self.time_str()), time_str defaulting to start_time.
Session_hash(s) == time_str(s.start_time)

\* Session.get_command: the first command whose hash matches, or None.
RECURSIVE Session_get_command(_, _)
Session_get_command(cmds, hsh) ==
  IF cmds = <<>> THEN None
  ELSE IF hsh = Command_hash(Head(cmds)) THEN Some(Head(cmds))
  ELSE Session_get_command(Tail(cmds), hsh)

\* Session.has_error
has_error(s) == \E i \in 1..Len(s.cmds) : is_error(s.cmds[i])

\* index comparing the commands by their fields.
Session_index_by_fields(cmds, command) ==
  LET at == {i \in 1..Len(cmds) : [cmds[i] EXCEPT !.oid = command.oid] = command}
  IN  IF at = {} THEN 0 ELSE CHOOSE i \in at : \A k \in at : i <= k

\* UserList.index(command): the first position holding the command (Command
\* defines no __eq__, so the very object), 0 for the ValueError of list.index.
Session_index(cmds, command) ==
  LET at == {i \in 1..Len(cmds) : Command_hash(cmds[i]) = Command_hash(command)}
  IN  IF at = {} THEN 0 ELSE CHOOSE i \in at : \A k \in at : i <= k

\* Session.time_after: [err, res].
time_after(s, command) ==
  LET index == Session_index(s.cmds, command)
  IN  IF index = 0 THEN [err |-> "ValueError", res |-> None]
      ELSE IF index = Len(s.cmds) THEN [err |-> "", res |-> Some(0)]
      ELSE [err |-> "", res |-> Some(s.cmds[index + 1].start_time - command.end_time)]

\* Session.time_before: [err, res].
time_before(s, command) ==
  LET index == Session_index(s.cmds, command)
  IN  IF index = 0 THEN [err |-> "ValueError", res |-> None]
      ELSE IF index = 1 THEN [err |-> "", res |-> Some(0)]
      ELSE [err |-> "", res |-> Some(command.start_time - s.cmds[index - 1].end_time)]

\* ------------------------------------------------------------------------
\* History
\* ------------------------------------------------------------------------

\* from_file_line inserting each command at the front of the session.
from_file_line_prepend(st, line, idx, gen, ch, cm) ==
  LET lowered == Lower(line.head)
      stamp == parse_datetime(line.date, line.time, ch, cm)
  IN
  IF st.err # "" THEN st
  ELSE IF StartsWith(lowered, "file name") THEN st
  ELSE IF StartsWith(lowered, "starting") THEN
    IF line.nf # 3 \/ stamp = None
    THEN [st EXCEPT !.err = "ValueError", !.errline = idx]
    ELSE [st EXCEPT !.session = Some(Session(<<>>, stamp, None, <<gen, idx>>))]
  ELSE IF StartsWith(lowered, "exiting") THEN
    IF line.nf # 3 \/ stamp = None
    THEN [st EXCEPT !.err = "ValueError", !.errline = idx]
    ELSE IF st.session = None
    THEN [st EXCEPT !.err = "AttributeError", !.errline = idx]
    ELSE [st EXCEPT
            !.sessions = Append(@, recalculate([st.session[1] EXCEPT !.end_time = stamp])),
            !.session = None]
  ELSE IF st.session # None THEN
    LET made == from_line(line, <<gen, idx>>, ch, cm)
    IN  IF made.err # "" THEN [st EXCEPT !.err = made.err, !.errline = idx]
        ELSE [st EXCEPT !.session =
                Some([st.session[1] EXCEPT !.cmds = <<made.cmd[1]>> \o @])]
  ELSE st

\* from_file_line keeping the open session that a 'starting' marker replaces.
from_file_line_keep_replaced(st, line, idx, gen, ch, cm) ==
  LET lowered == Lower(line.head)
      stamp == parse_datetime(line.date, line.time, ch, cm)
  IN
  IF st.err # "" THEN st
  ELSE IF StartsWith(lowered, "file name") THEN st
  ELSE IF StartsWith(lowered, "starting") THEN
    IF line.nf # 3 \/ stamp = None
    THEN [st EXCEPT !.err = "ValueError", !.errline = idx]
    ELSE [st EXCEPT
            !.sessions = IF st.session # None THEN Append(@, recalculate(st.session[1]))
                         ELSE @,
            !.session = Some(Session(<<>>, stamp, None, <<gen, idx>>))]
  ELSE IF StartsWith(lowered, "exiting") THEN
    IF line.nf # 3 \/ stamp = None
    THEN [st EXCEPT !.err = "ValueError", !.errline = idx]
    ELSE IF st.session = None
    THEN [st EXCEPT !.err = "AttributeError", !.errline = idx]
    ELSE [st EXCEPT
            !.sessions = Append(@, recalculate([st.session[1] EXCEPT !.end_time = stamp])),
            !.session = None]
  ELSE IF st.session # None THEN
    LET made == from_line(line, <<gen, idx>>, ch, cm)
    IN  IF made.err # "" THEN [st EXCEPT !.err = made.err, !.errline = idx]
        ELSE [st EXCEPT !.session =
                Some([st.session[1] EXCEPT !.cmds = Append(@, made.cmd[1])])]
  ELSE st

\* from_file_line passing over an 'exiting' marker read while no session is open.
from_file_line_ignore_exit(st, line, idx, gen, ch, cm) ==
  LET lowered == Lower(line.head)
      stamp == parse_datetime(line.date, line.time, ch, cm)
  IN
  IF st.err # "" THEN st
  ELSE IF StartsWith(lowered, "file name") THEN st
  ELSE IF StartsWith(lowered, "starting") THEN
    IF line.nf # 3 \/ stamp = None
    THEN [st EXCEPT !.err = "ValueError", !.errline = idx]
    ELSE [st EXCEPT !.session = Some(Session(<<>>, stamp, None, <<gen, idx>>))]
  ELSE IF StartsWith(lowered, "exiting") THEN
    IF line.nf # 3 \/ stamp = None
    THEN [st EXCEPT !.err = "ValueError", !.errline = idx]
    ELSE IF st.session = None
    THEN st
    ELSE [st EXCEPT
            !.sessions = Append(@, recalculate([st.session[1] EXCEPT !.end_time = stamp])),
            !.session = None]
  ELSE IF st.session # None THEN
    LET made == from_line(line, <<gen, idx>>, ch, cm)
    IN  IF made.err # "" THEN [st EXCEPT !.err = made.err, !.errline = idx]
        ELSE [st EXCEPT !.session =
                Some([st.session[1] EXCEPT !.cmds = Append(@, made.cmd[1])])]
  ELSE st

\* from_file_line leaving `session` bound after an 'exiting' marker.
from_file_line_keep_open(st, line, idx, gen, ch, cm) ==
  LET lowered == Lower(line.head)
      stamp == parse_datetime(line.date, line.time, ch, cm)
  IN
  IF st.err # "" THEN st
  ELSE IF StartsWith(lowered, "file name") THEN st
  ELSE IF StartsWith(lowered, "starting") THEN
    IF line.nf # 3 \/ stamp = None
    THEN [st EXCEPT !.err = "ValueError", !.errline = idx]
    ELSE [st EXCEPT !.session = Some(Session(<<>>, stamp, None, <<gen, idx>>))]
  ELSE IF StartsWith(lowered, "exiting") THEN
    IF line.nf # 3 \/ stamp = None
    THEN [st EXCEPT !.err = "ValueError", !.errline = idx]
    ELSE IF st.session = None
    THEN [st EXCEPT !.err = "AttributeError", !.errline = idx]
    ELSE [st EXCEPT
            !.sessions = Append(@, recalculate([st.session[1] EXCEPT !.end_time = stamp])),
            !.session = Some(recalculate([st.session[1] EXCEPT !.end_time = stamp]))]
  ELSE IF st.session # None THEN
    LET made == from_line(line, <<gen, idx>>, ch, cm)
    IN  IF made.err # "" THEN [st EXCEPT !.err = made.err, !.errline = idx]
        ELSE [st EXCEPT !.session =
                Some([st.session[1] EXCEPT !.cmds = Append(@, made.cmd[1])])]
  ELSE st

\* from_file_line passing over a marker line that has not 3 fields.
from_file_line_lenient(st, line, idx, gen, ch, cm) ==
  LET lowered == Lower(line.head)
      stamp == parse_datetime(line.date, line.time, ch, cm)
  IN
  IF st.err # "" THEN st
  ELSE IF StartsWith(lowered, "file name") THEN st
  ELSE IF StartsWith(lowered, "starting") THEN
    IF line.nf # 3 THEN st
    ELSE IF stamp = None
    THEN [st EXCEPT !.err = "ValueError", !.errline = idx]
    ELSE [st EXCEPT !.session = Some(Session(<<>>, stamp, None, <<gen, idx>>))]
  ELSE IF StartsWith(lowered, "exiting") THEN
    IF line.nf # 3 THEN st
    ELSE IF stamp = None
    THEN [st EXCEPT !.err = "ValueError", !.errline = idx]
    ELSE IF st.session = None
    THEN [st EXCEPT !.err = "AttributeError", !.errline = idx]
    ELSE [st EXCEPT
            !.sessions = Append(@, recalculate([st.session[1] EXCEPT !.end_time = stamp])),
            !.session = None]
  ELSE IF st.session # None THEN
    LET made == from_line(line, <<gen, idx>>, ch, cm)
    IN  IF made.err # "" THEN [st EXCEPT !.err = made.err, !.errline = idx]
        ELSE [st EXCEPT !.session =
                Some([st.session[1] EXCEPT !.cmds = Append(@, made.cmd[1])])]
  ELSE st

\* One iteration of the `for line in f` loop of History.from_file on the
\* line numbered idx.  st is [sessions, session, err, errline]: the local
\* variables `sessions` and `session`, the exception that left the loop (""
\* for none) and the number of the line that raised it.  gen numbers the
\* call, for the identities of the objects it makes.
from_file_line(st, line, idx, gen, ch, cm) ==
  LET lowered == Lower(line.head)
      stamp == parse_datetime(line.date, line.time, ch, cm)
  IN
  IF st.err # "" THEN st
  ELSE IF StartsWith(lowered, "file name") THEN st
  ELSE IF StartsWith(lowered, "starting") THEN
    IF line.nf # 3 \/ stamp = None
    THEN [st EXCEPT !.err = "ValueError", !.errline = idx]
    ELSE [st EXCEPT !.session = Some(Session(<<>>, stamp, None, <<gen, idx>>))]
  ELSE IF StartsWith(lowered, "exiting") THEN
    IF line.nf # 3 \/ stamp = None
    THEN [st EXCEPT !.err = "ValueError", !.errline = idx]
    ELSE IF st.session = None
    THEN [st EXCEPT !.err = "AttributeError", !.errline = idx]
    ELSE [st EXCEPT
            !.sessions = Append(@, recalculate([st.session[1] EXCEPT !.end_time = stamp])),
            !.session = None]
  ELSE IF st.session # None THEN
    LET made == from_line(line, <<gen, idx>>, ch, cm)
    IN  IF made.err # "" THEN [st EXCEPT !.err = made.err, !.errline = idx]
        ELSE [st EXCEPT !.session =
                Some([st.session[1] EXCEPT !.cmds = Append(@, made.cmd[1])])]
  ELSE st

\* The loop of History.from_file over the first n lines of the log.
RECURSIVE from_file_loop(_, _, _, _, _)
from_file_loop(log, n, gen, ch, cm) ==
  IF n = 0 THEN [sessions |-> <<>>, session |-> None, err |-> "", errline |-> 0]
  ELSE from_file_line(from_file_loop(log, n - 1, gen, ch, cm), log[n], n, gen, ch, cm)

\* from_file rejecting a file without lines.
from_file_needs_lines(log, gen, ch, cm) ==
  LET st == from_file_loop(log, Len(log), gen, ch, cm)
  IN  IF log = <<>> THEN [err |-> "ValueError", errline |-> 0, sessions |-> <<>>]
      ELSE IF st.err # "" THEN [err |-> st.err, errline |-> st.errline, sessions |-> <<>>]
      ELSE IF st.session # None
           THEN [err |-> "", errline |-> 0,
                 sessions |-> Append(st.sessions, recalculate(st.session[1]))]
      ELSE [err |-> "", errline |-> 0, sessions |-> st.sessions]

\* from_file without the "pick up any non-exits" step.
from_file_no_pickup(log, gen, ch, cm) ==
  LET st == from_file_loop(log, Len(log), gen, ch, cm)
  IN  IF st.err # "" THEN [err |-> st.err, errline |-> st.errline, sessions |-> <<>>]
      ELSE [err |-> "", errline |-> 0, sessions |-> st.sessions]

\* History.from_file: the loop, then "pick up any non-exits".  The result is
\* [err, errline, sessions]: the exception raised ("" for none), the line
\* that raised it, and the History returned (no History is returned when an
\* exception is raised).
from_file(log, gen, ch, cm) ==
  LET st == from_file_loop(log, Len(log), gen, ch, cm)
  IN  IF st.err # "" THEN [err |-> st.err, errline |-> st.errline, sessions |-> <<>>]
      ELSE IF st.session # None
           THEN [err |-> "", errline |-> 0,
                 sessions |-> Append(st.sessions, recalculate(st.session[1]))]
      ELSE [err |-> "", errline |-> 0, sessions |-> st.sessions]

\* History.get_session: [err, found].
RECURSIVE get_session(_, _)
get_session(sessions, hsh) ==
  IF sessions = <<>> THEN [err |-> "ValueError", found |-> None]
  ELSE IF Session_hash(Head(sessions)) = hsh THEN [err |-> "", found |-> Some(Head(sessions))]
  ELSE get_session(Tail(sessions), hsh)

\* get_command looking in the first session only.
get_command_first(sessions, hsh) ==
  IF sessions = <<>> THEN [err |-> "ValueError", found |-> None]
  ELSE LET hl == Session_get_command(Head(sessions).cmds, hsh)
       IN  IF hl # None THEN [err |-> "", found |-> hl]
           ELSE [err |-> "ValueError", found |-> None]

\* History.get_command: [err, found].
RECURSIVE get_command(_, _)
get_command(sessions, hsh) ==
  IF sessions = <<>> THEN [err |-> "ValueError", found |-> None]
  ELSE LET hl == Session_get_command(Head(sessions).cmds, hsh)
       IN  IF hl # None THEN [err |-> "", found |-> hl]
           ELSE get_command(Tail(sessions), hsh)

\* ------------------------------------------------------------------------
\* Log lines
\* ------------------------------------------------------------------------

Line(head, nf, time, date, status, rapid, feed, laser) ==
  [head |-> head, nf |-> nf, time |-> time, date |-> date, status |-> status,
   rapid |-> rapid, feed |-> feed, laser |-> laser]

Marker(head, nf, time, date) == Line(head, nf, time, date, "", <<>>, <<>>, <<>>)

Jan2 == <<1, 2, 23>>

HeaderLine == Line("File Name", 42, <<>>, <<>>, "", <<>>, <<>>, <<>>)

StartNight == Marker("Starting", 3, <<0, 30, 0>>, Jan2)

StartNoon == Marker("STARTING", 3, <<12, 30, 0>>, Jan2)

StartShort == Marker("Starting", 2, <<0, 30, 0>>, <<>>)

ExitNoon == Marker("Exiting", 3, <<12, 40, 0>>, Jan2)

ExitLong == Marker("Exiting", 4, <<12, 40, 0>>, Jan2)

RowCommand == Line("G0X1Y1", 42, <<12, 35, 0>>, Jan2, "OK", <<0, 3>>, <<0, 2>>, <<0, 0>>)

RowCommandFile ==
  Line("C:\\WinCNC\\HOME.TAP", 42, <<12, 36, 10>>, Jan2, "Aborted", <<1, 0>>, <<0, 0>>, <<0, 5>>)

Row41 == Line("G0X1Y1", 41, <<12, 35, 0>>, Jan2, "OK", <<0, 3>>, <<0, 2>>, <<0, 0>>)

RowBadDuration == Line("G0X1Y1", 42, <<12, 35, 0>>, Jan2, "OK", <<0, 3>>, <<1, 2, 3>>, <<0, 0>>)

RowBadTime == Line("G0X1Y1", 42, <<25, 0, 0>>, Jan2, "OK", <<0, 3>>, <<0, 2>>, <<0, 0>>)

\* The lines the controller may write.
GoodLines == {HeaderLine, StartNight, StartNoon, ExitNoon, RowCommand, RowCommandFile}

BadLines == {StartShort, ExitLong, Row41, RowBadDuration, RowBadTime}

Lines == GoodLines \cup BadLines

\* A row of a user's file, logged 12:38:00 after running 1:42.
RowUserFile ==
  Line("C:\\Jobs\\Part.tap", 42, <<12, 38, 0>>, Jan2, "Ok", <<0, 12>>, <<1, 30>>, <<0, 0>>)

\* The rows a Session is given commands from.
SessionRows == {RowCommand, RowCommandFile, RowUserFile}

\* The start_time a Session is constructed with: none, or a text (date, time).
SessionStarts == {None, Some(<<Jan2, <<12, 30, 0>>>>)}

\* The end_time a Session is constructed with or given: none, or a text.
SessionEnds == {None, Some(<<Jan2, <<12, 40, 0>>>>)}

\* The configured time adjustments (change_hours, change_minutes).
Adjustments == {<<0, 0>>, <<1, 30>>}

\* ------------------------------------------------------------------------
\* State machine
\* ------------------------------------------------------------------------
\* file            the lines of WINCNC.CSV, which the controller only appends to
\* change_hours,
\* change_minutes  the configured time adjustment
\* calls           the History.from_file calls made so far, each with the
\*                 number n of lines the file had, the exception raised and
\*                 the History returned
\* history         WinMain.history: the History the viewer looks things up in
\* lookup          the last get_session / get_command call: the hash asked
\*                 for, the identity of the tree item the hash was taken from
\*                 (None when it is no item's), the exception and the result
\* ses             a Session used through its own interface: the object (None
\*                 before one is constructed), the last operation that set
\*                 something in it, the exception that operation raised, and
\*                 the last question asked of it since (has_error,
\*                 time_before, time_after) with its argument, exception and
\*                 answer

NoQuery == [name |-> "", arg |-> None, err |-> "", res |-> None]

NoSession == [obj |-> None, op |-> "", err |-> "", query |-> NoQuery]

NoLookup == [op |-> "", hsh |-> <<>>, item |-> None, err |-> "", found |-> None]

Init ==
  /\ file = <<>>
  /\ \E adj \in Adjustments : change_hours = adj[1] /\ change_minutes = adj[2]
  /\ calls = <<>>
  /\ history = <<>>
  /\ lookup = NoLookup
  /\ ses = NoSession

\* The controller appends a line to WINCNC.CSV before the viewer is started.
WriteLine(l) ==
  /\ calls = <<>>
  /\ Len(file) < MaxLines
  /\ file' = Append(file, l)
  /\ UNCHANGED <<change_hours, change_minutes, calls, history, lookup, ses>>

Write == \E l \in Lines : WriteLine(l)

\* The controller appends a well-formed line at any time.
AppendLine(l) ==
  /\ Len(file) < MaxLines
  /\ file' = Append(file, l)
  /\ lookup' = NoLookup
  /\ UNCHANGED <<change_hours, change_minutes, calls, history, ses>>

AppendGood == \E l \in GoodLines : AppendLine(l)

\* WinMain.refresh: self.history = History.from_file(self.filepath); an
\* exception leaves self.history as it was.
refresh ==
  LET r == from_file(file, Len(calls) + 1, change_hours, change_minutes)
  IN  /\ calls' = Append(calls, [n |-> Len(file), err |-> r.err,
                                 errline |-> r.errline, sessions |-> r.sessions])
      /\ history' = IF r.err = "" THEN r.sessions ELSE history
      /\ lookup' = NoLookup
      /\ UNCHANGED <<file, change_hours, change_minutes, ses>>

\* The viewer is started: the first from_file call.
Load == calls = <<>> /\ refresh

\* The viewer is started again on the same file: a further from_file call.
Reload == calls # <<>> /\ Len(calls) < MaxParses /\ refresh

\* The hashes a lookup may be given that are no item's: a stale session tag
\* and a stale command tag.
StraySessionHashes == {time_str(Some(86400 + 8 * 3600))}

StrayCommandHashes == {<<0, 0>>}

\* WinMain.show_tooltip_session: self.history.get_session(hsh), hsh being the
\* tag of the session item under the pointer, or a tag of no item.
LookupSession(hsh, item) ==
  /\ calls # <<>>
  /\ LET r == get_session(history, hsh)
     IN  lookup' = [op |-> "get_session", hsh |-> hsh, item |-> item,
                    err |-> r.err, found |-> r.found]
  /\ UNCHANGED <<file, change_hours, change_minutes, calls, history, ses>>

GetSession ==
  \/ \E k \in 1..Len(history) :
       LookupSession(Session_hash(history[k]), Some(history[k].oid))
  \/ \E hsh \in StraySessionHashes : LookupSession(hsh, None)

\* WinMain.event_tree_session_select and show_tooltip_command:
\* self.history.get_command(hsh), hsh being the tag of a command item, or a
\* tag of no item.
LookupCommand(hsh, item) ==
  /\ calls # <<>>
  /\ LET r == get_command(history, hsh)
     IN  lookup' = [op |-> "get_command", hsh |-> hsh, item |-> item,
                    err |-> r.err, found |-> r.found]
  /\ UNCHANGED <<file, change_hours, change_minutes, calls, history, ses>>

GetCommand ==
  \/ \E k \in 1..Len(history) : \E m \in 1..Len(history[k].cmds) :
       LookupCommand(Command_hash(history[k].cmds[m]), Some(history[k].cmds[m].oid))
  \/ \E hsh \in StrayCommandHashes : LookupCommand(hsh, None)

\* Session.__init__ turning a text given as start_time or end_time into a
\* datetime.
SessionStamp(text) ==
  IF text = None THEN None
  ELSE parse_datetime(text[1][1], text[1][2], change_hours, change_minutes)

\* Session([], start_time, end_time): the constructor ends with
\* self.recalculate(), and no object is made when that raises.
NewSession(start_time, end_time) ==
  /\ ses.obj = None
  /\ LET made == Session(<<>>, SessionStamp(start_time), SessionStamp(end_time), <<0, 0>>)
     IN  ses' = IF runtime_info_raises(made)
                THEN [obj |-> None, op |-> "init", err |-> "TypeError", query |-> NoQuery]
                ELSE [obj |-> Some(made), op |-> "init", err |-> "", query |-> NoQuery]
  /\ UNCHANGED <<file, change_hours, change_minutes, calls, history, lookup>>

Construct == \E start_time \in SessionStarts : \E end_time \in SessionEnds :
               NewSession(start_time, end_time)

\* session.append(Command.from_line(row)): UserList.append, which recalculates
\* nothing.
SessionAppend(row) ==
  /\ ses.obj # None
  /\ Len(ses.obj[1].cmds) < MaxCmds
  /\ LET made == from_line(row, <<0, Len(ses.obj[1].cmds) + 1>>, change_hours, change_minutes)
     IN  ses' = [obj |-> Some([ses.obj[1] EXCEPT !.cmds = Append(@, made.cmd[1])]),
                 op |-> "append", err |-> "", query |-> NoQuery]
  /\ UNCHANGED <<file, change_hours, change_minutes, calls, history, lookup>>

AppendCommand == \E row \in SessionRows : SessionAppend(row)

\* session.end_time = parse_datetime(...)
SetEndTime(end_time) ==
  /\ ses.obj # None
  /\ ses' = [obj |-> Some([ses.obj[1] EXCEPT !.end_time = SessionStamp(end_time)]),
             op |-> "end_time", err |-> "", query |-> NoQuery]
  /\ UNCHANGED <<file, change_hours, change_minutes, calls, history, lookup>>

Exit == \E end_time \in SessionEnds \ {None} : SetEndTime(end_time)

\* session.recalculate()
Recalculate ==
  /\ ses.obj # None
  /\ ses' = [obj |-> Some(recalculate(ses.obj[1])),
             op |-> "recalculate",
             err |-> IF runtime_info_raises(ses.obj[1]) THEN "TypeError" ELSE "",
             query |-> NoQuery]
  /\ UNCHANGED <<file, change_hours, change_minutes, calls, history, lookup>>

\* session.has_error()
HasError ==
  /\ ses.obj # None
  /\ ses' = [ses EXCEPT !.query = [name |-> "has_error", arg |-> None, err |-> "",
                                   res |-> Some(has_error(ses.obj[1]))]]
  /\ UNCHANGED <<file, change_hours, change_minutes, calls, history, lookup>>

\* A Command that was never appended to the session, made from the same row
\* as one that may have been.
StrayCommand == from_line(RowCommand, <<0, 0>>, change_hours, change_minutes).cmd[1]

\* WinToolTipCommand.__init__: session.time_before(command)
AskTimeBefore(command) ==
  /\ ses.obj # None
  /\ LET r == time_before(ses.obj[1], command)
     IN  ses' = [ses EXCEPT !.query = [name |-> "time_before", arg |-> Some(command),
                                      err |-> r.err, res |-> r.res]]
  /\ UNCHANGED <<file, change_hours, change_minutes, calls, history, lookup>>

TimeBefore ==
  /\ ses.obj # None
  /\ \/ \E i \in 1..Len(ses.obj[1].cmds) : AskTimeBefore(ses.obj[1].cmds[i])
     \/ AskTimeBefore(StrayCommand)

\* WinToolTipCommand.__init__: session.time_after(command)
AskTimeAfter(command) ==
  /\ ses.obj # None
  /\ LET r == time_after(ses.obj[1], command)
     IN  ses' = [ses EXCEPT !.query = [name |-> "time_after", arg |-> Some(command),
                                      err |-> r.err, res |-> r.res]]
  /\ UNCHANGED <<file, change_hours, change_minutes, calls, history, lookup>>

TimeAfter ==
  /\ ses.obj # None
  /\ \/ \E i \in 1..Len(ses.obj[1].cmds) : AskTimeAfter(ses.obj[1].cmds[i])
     \/ AskTimeAfter(StrayCommand)

\* One run of the viewer on the log the controller wrote.
Next == Write \/ Load

Spec == Init /\ [][Next]_vars

\* The viewer started repeatedly while the controller keeps writing.
NextReload == AppendGood \/ Load \/ Reload

SpecReload == Init /\ [][NextReload]_vars

\* The viewer and its lookups while the controller keeps writing.
NextLookup == AppendGood \/ Load \/ GetSession \/ GetCommand

SpecLookup == Init /\ [][NextLookup]_vars

\* A Session built up and recalculated through its own methods.
NextSession == Construct \/ AppendCommand \/ Exit \/ Recalculate

SpecSession == Init /\ [][NextSession]_vars

\* A Session built up and asked about its commands, as the tooltips do.
NextQuery ==
  \/ Construct \/ AppendCommand \/ Recalculate
  \/ HasError \/ TimeBefore \/ TimeAfter

SpecQuery == Init /\ [][NextQuery]_vars

\* ------------------------------------------------------------------------
\* The structure of a log, for stating the properties
\* ------------------------------------------------------------------------

\* The kind of a line, by the prefix it begins with (case-insensitive).
Kind(l) ==
  LET h == Lower(l.head)
  IN  CASE h = "file name" -> "header"
        [] h = "starting" -> "starting"
        [] h = "exiting" -> "exiting"
        [] OTHER -> "data"

IsMarker(l) == Kind(l) \in {"starting", "exiting"}

\* The last marker line before line i of the log (0 when there is none).
LastMarker(log, i) ==
  LET M == {j \in 1..(i - 1) : IsMarker(log[j])}
  IN  IF M = {} THEN 0 ELSE CHOOSE j \in M : \A k \in M : k <= j

\* The first marker line after line j of the log (Len(log) + 1 when none).
NextMarker(log, j) ==
  LET M == {k \in (j + 1)..Len(log) : IsMarker(log[k])}
  IN  IF M = {} THEN Len(log) + 1 ELSE CHOOSE k \in M : \A m \in M : k <= m

\* A session is open when line i is read: the last marker before it is a
\* 'starting' marker.
OpenAt(log, i) == LastMarker(log, i) # 0 /\ Kind(log[LastMarker(log, i)]) = "starting"

\* The data lines between marker line j and the next marker line.
DataAfter(log, j) == {i \in (j + 1)..(NextMarker(log, j) - 1) : Kind(log[i]) = "data"}

\* The log the c-th from_file call read.
LogOf(c) == SubSeq(file, 1, calls[c].n)

Returned(c) == calls[c].err = ""

CommandsOf(sessions) ==
  {sessions[k].cmds[m] : <<k, m>> \in {<<k, m>> \in (1..Len(sessions)) \X (1..MaxLines + 1) :
                                        m <= Len(sessions[k].cmds)}}

\* The sub-fields of a data row that Command.__init__ converts are well formed.
ValidSubFields(l) ==
  /\ Len(l.rapid) = 2 /\ Len(l.feed) = 2 /\ Len(l.laser) = 2
  /\ ValidStamp(l.date, l.time)

\* ------------------------------------------------------------------------
\* Properties
\* ------------------------------------------------------------------------

\* C1: a data line read while no session is open belongs to an implicit open
\* session: it is parsed into a Command that appears in some session of the
\* History returned.
C1_DataOutsideSessionIsKept ==
  \A c \in 1..Len(calls) :
    Returned(c) =>
      \A i \in 1..calls[c].n :
        (Kind(file[i]) = "data" /\ ~OpenAt(LogOf(c), i)) =>
          \E cmd \in CommandsOf(calls[c].sessions) : cmd.oid = <<c, i>>

\* C2: from_file raises and returns no History whenever a data line of the
\* log is malformed (wrong field count, unparsable duration or timestamp),
\* whatever the detector state when the line is read.
C2_MalformedRowAborts ==
  \A c \in 1..Len(calls) :
    (\E i \in 1..calls[c].n :
        Kind(file[i]) = "data" /\ ~(file[i].nf = row_len /\ ValidSubFields(file[i])))
      => ~Returned(c)

\* Line i of the c-th call's log was read: no earlier line raised.
Reached(c, i) == Returned(c) \/ i <= calls[c].errline

\* C3 as stated: the command parser accepts a data row exactly when it has
\* 41 fields (and well-formed sub-fields).
C3_AcceptsExactly41 ==
  \A c \in 1..Len(calls) : \A i \in 1..calls[c].n :
    (Kind(file[i]) = "data" /\ OpenAt(LogOf(c), i) /\ Reached(c, i)) =>
      /\ (file[i].nf = 41 /\ ValidSubFields(file[i])) => calls[c].errline # i
      /\ file[i].nf # 41 => calls[c].errline = i

\* C3 amended: the command parser accepts a data row exactly when it has 42
\* fields, the length of Command.header: a row of 42 fields with well-formed
\* sub-fields yields a Command, a row of any other length raises TypeError.
C3_AcceptsExactly42 ==
  \A c \in 1..Len(calls) : \A i \in 1..calls[c].n :
    (Kind(file[i]) = "data" /\ OpenAt(LogOf(c), i) /\ Reached(c, i)) =>
      /\ (file[i].nf = 42 /\ ValidSubFields(file[i])) => calls[c].errline # i
      /\ file[i].nf # 42 => (calls[c].errline = i /\ calls[c].err = "TypeError")

\* A call that accepted a row of 42 fields and then raised on a row of 41.
C3_Witness ==
  \E c \in 1..Len(calls) : \E i \in 1..calls[c].n :
    /\ calls[c].errline = i /\ i > 2
    /\ Kind(file[i]) = "data" /\ file[i].nf = 41 /\ ValidSubFields(file[i])
    /\ Kind(file[i - 1]) = "data" /\ file[i - 1].nf = 42
    /\ OpenAt(LogOf(c), i)

\* The last 'starting' marker of a log (0 when there is none).
LastStart(log) ==
  LET M == {j \in 1..Len(log) : Kind(log[j]) = "starting"}
  IN  IF M = {} THEN 0 ELSE CHOOSE j \in M : \A k \in M : k <= j

\* The command was made from the given line.
MadeFrom(cmd, l) ==
  /\ cmd.filename = Lower(l.head) /\ cmd.status = l.status
  /\ cmd.time = l.time /\ cmd.date = l.date
  /\ cmd.rapid = l.rapid /\ cmd.feed = l.feed /\ cmd.laser = l.laser

\* C4: when the last 'starting' marker of the log is followed only by data
\* rows up to the end of input, the History returned ends with that open
\* session: no end_time, end-of-day and actual durations zero, and every one
\* of those rows as its commands.
C4_OpenSessionIsReturned ==
  \A c \in 1..Len(calls) :
    LET log == LogOf(c)
        j == LastStart(log)
        S == calls[c].sessions
    IN  (Returned(c) /\ j # 0 /\ \A i \in (j + 1)..Len(log) : Kind(log[i]) = "data") =>
          /\ S # <<>>
          /\ S[Len(S)].oid = <<c, j>>
          /\ S[Len(S)].end_time = None
          /\ S[Len(S)].end_of_day_delta = 0
          /\ S[Len(S)].actual_delta = 0
          /\ Len(S[Len(S)].cmds) = Len(log) - j
          /\ \A m \in 1..(Len(log) - j) :
               /\ S[Len(S)].cmds[m].oid = <<c, j + m>>
               /\ MadeFrom(S[Len(S)].cmds[m], log[j + m])

\* A History with a closed session followed by an open session with a command.
C4_Witness ==
  \E c \in 1..Len(calls) :
    LET S == calls[c].sessions
    IN  /\ Returned(c) /\ Len(S) >= 2
        /\ S[Len(S)].end_time = None /\ S[Len(S)].cmds # <<>>
        /\ Kind(file[calls[c].n]) = "data"

\* C5: the sessions returned are in the order of their 'starting' markers,
\* and the commands of each are exactly the data lines between its marker and
\* the next marker line (or end of input), once each and in log order.
C5_SessionsAndCommandsInLogOrder ==
  \A c \in 1..Len(calls) :
    LET log == LogOf(c)
        S == calls[c].sessions
    IN  Returned(c) =>
          /\ \A k \in 1..Len(S) :
               /\ S[k].oid[1] = c
               /\ S[k].oid[2] \in 1..Len(log)
               /\ Kind(log[S[k].oid[2]]) = "starting"
               /\ Len(S[k].cmds) = Cardinality(DataAfter(log, S[k].oid[2]))
               /\ \A m \in 1..Len(S[k].cmds) :
                    /\ S[k].cmds[m].oid[1] = c
                    /\ S[k].cmds[m].oid[2] \in DataAfter(log, S[k].oid[2])
                    /\ MadeFrom(S[k].cmds[m], log[S[k].cmds[m].oid[2]])
               /\ \A m \in 1..(Len(S[k].cmds) - 1) :
                    S[k].cmds[m].oid[2] < S[k].cmds[m + 1].oid[2]
          /\ \A k \in 1..(Len(S) - 1) : S[k].oid[2] < S[k + 1].oid[2]

\* A History of two sessions, the first with a command.
C5_Witness ==
  \E c \in 1..Len(calls) :
    /\ Returned(c) /\ Len(calls[c].sessions) >= 2
    /\ Len(calls[c].sessions[1].cmds) >= 1

\* C6: the identity hash of a Command is a deterministic function of its
\* start_time: two from_file calls on the same file give commands with equal
\* hashes position by position, so a hash taken from the first History
\* fetches the command at the same position of the second.
C6_CommandHashIsStable ==
  \A c1 \in 1..Len(calls) : \A c2 \in 1..Len(calls) :
    (c1 < c2 /\ calls[c1].n = calls[c2].n /\ Returned(c1) /\ Returned(c2)) =>
      \A k \in 1..Len(calls[c1].sessions) :
        \A m \in 1..Len(calls[c1].sessions[k].cmds) :
          LET old == calls[c1].sessions[k].cmds[m]
              new == calls[c2].sessions[k].cmds[m]
          IN  /\ Command_hash(old) = Command_hash(new)
              /\ get_command(calls[c2].sessions, Command_hash(old)).found = Some(new)

\* C7: in a History returned by from_file no two sessions have the same hash
\* and no two commands of a session have the same hash.
C7_HashesAreUnique ==
  \A c \in 1..Len(calls) :
    LET S == calls[c].sessions
    IN  Returned(c) =>
          /\ \A k1 \in 1..Len(S) : \A k2 \in 1..Len(S) :
               k1 # k2 => Session_hash(S[k1]) # Session_hash(S[k2])
          /\ \A k \in 1..Len(S) :
               \A m1 \in 1..Len(S[k].cmds) : \A m2 \in 1..Len(S[k].cmds) :
                 m1 # m2 => Command_hash(S[k].cmds[m1]) # Command_hash(S[k].cmds[m2])

\* C8: a lookup by the hash of a session or command of the History returns
\* that very session or command.
C8_LookupReturnsTheItem ==
  lookup.item # None =>
    /\ lookup.err = ""
    /\ lookup.found # None
    /\ lookup.found[1].oid = lookup.item[1]

\* What a finished lookup lk on the History h must have answered.
LookupAnswer(lk, h) ==
  LET matches == IF lk.op = "get_session"
                 THEN {h[k] : k \in {k \in 1..Len(h) : Session_hash(h[k]) = lk.hsh}}
                 ELSE {cmd \in CommandsOf(h) : Command_hash(cmd) = lk.hsh}
  IN  /\ lk.err \in {"", "ValueError"}
      /\ lk.err = "ValueError" <=> matches = {}
      /\ lk.err = "ValueError" => lk.found = None
      /\ lk.err = "" => (lk.found # None /\ lk.found[1] \in matches)

\* C9: get_session and get_command raise ValueError exactly when no session,
\* respectively no command of any session, of the History has the hash;
\* otherwise they return one that has it; either way the History, its
\* sessions and its commands are as before the call.
C9_NotFoundExactlyWhenAbsent ==
  [][lookup'.op # "" =>
       /\ LookupAnswer(lookup', history)
       /\ history' = history /\ calls' = calls /\ file' = file]_vars

\* A lookup that raised ValueError on a History that holds commands.
C9_Witness ==
  /\ lookup.op = "get_command" /\ lookup.err = "ValueError"
  /\ Len(history) >= 2 /\ CommandsOf(history) # {}

\* The fields of a command, its object identity aside.
Fields(cmd) == [cmd EXCEPT !.oid = <<0, 0>>]

\* C10: when lines are appended to a log between two from_file calls, every
\* session the first call returned closed is, at the same index of the
\* second History, a session with the same hash, start_time and end_time and
\* the same sequence of command field values.
C10_ClosedSessionsSurviveAppend ==
  \A c1 \in 1..Len(calls) : \A c2 \in 1..Len(calls) :
    (c1 < c2 /\ Returned(c1) /\ Returned(c2)) =>
      \A k \in 1..Len(calls[c1].sessions) :
        LET old == calls[c1].sessions[k]
        IN  old.end_time # None =>
              /\ k <= Len(calls[c2].sessions)
              /\ Session_hash(calls[c2].sessions[k]) = Session_hash(old)
              /\ calls[c2].sessions[k].start_time = old.start_time
              /\ calls[c2].sessions[k].end_time = old.end_time
              /\ Len(calls[c2].sessions[k].cmds) = Len(old.cmds)
              /\ \A m \in 1..Len(old.cmds) :
                   Fields(calls[c2].sessions[k].cmds[m]) = Fields(old.cmds[m])

\* Two calls, lines appended in between, the first with a closed session that
\* holds a command.
C10_Witness ==
  \E c1 \in 1..Len(calls) : \E c2 \in 1..Len(calls) :
    /\ c1 < c2 /\ Returned(c1) /\ Returned(c2)
    /\ calls[c1].n < calls[c2].n
    /\ calls[c1].sessions # <<>>
    /\ calls[c1].sessions[1].end_time # None
    /\ calls[c1].sessions[1].cmds # <<>>

\* C11: a 'starting' or 'exiting' line that has not exactly 3 fields aborts
\* from_file with an error whether or not a session is open when it is read:
\* no History is returned, and when the line is read it is the line that
\* raises, with ValueError.
C11_MalformedMarkerAborts ==
  \A c \in 1..Len(calls) : \A i \in 1..calls[c].n :
    (IsMarker(file[i]) /\ file[i].nf # 3) =>
      /\ ~Returned(c)
      /\ calls[c].sessions = <<>>
      /\ Reached(c, i) => (calls[c].errline = i /\ calls[c].err = "ValueError")

\* A call that parsed a complete session and then raised on a marker line
\* that has not 3 fields.
C11_Witness ==
  \E c \in 1..Len(calls) : \E i \in 3..calls[c].n :
    /\ calls[c].errline = i
    /\ IsMarker(file[i]) /\ file[i].nf # 3
    /\ \E j \in 1..(i - 2) : \E k \in (j + 1)..(i - 1) :
         /\ Kind(file[j]) = "starting" /\ Kind(file[k]) = "exiting"
         /\ \A m \in (j + 1)..(k - 1) : Kind(file[m]) = "data"
    /\ ~OpenAt(LogOf(c), i)

\* The seconds a mm:ss field stands for.
Seconds(durstr) == durstr[1] * 60 + durstr[2]

\* C12: the duration of every Command of a returned History is the sum of the
\* rapid, feed and laser fields of its row, each minutes * 60 + seconds, and
\* its start_time plus its duration is its end_time.
C12_DurationIsSumOfFields ==
  \A c \in 1..Len(calls) :
    Returned(c) =>
      \A cmd \in CommandsOf(calls[c].sessions) :
        LET l == file[cmd.oid[2]]
        IN  /\ cmd.duration_delta = Seconds(l.rapid) + Seconds(l.feed) + Seconds(l.laser)
            /\ cmd.start_time + cmd.duration_delta = cmd.end_time

\* A returned History with a command that has rapid and laser time.
C12_Witness ==
  \E c \in 1..Len(calls) :
    /\ Returned(c)
    /\ \E cmd \in CommandsOf(calls[c].sessions) :
         /\ Seconds(file[cmd.oid[2]].laser) > 0
         /\ Seconds(file[cmd.oid[2]].rapid) > 0
         /\ cmd.duration_delta > 0

RECURSIVE SumOfDurations(_)
SumOfDurations(cmds) ==
  IF cmds = <<>> THEN 0 ELSE Head(cmds).duration_delta + SumOfDurations(Tail(cmds))

\* C13: in every History returned by from_file, the duration_delta of every
\* session, closed or still open at the end of input, is the sum of the
\* durations of its commands.
C13_SessionDurationIsSum ==
  \A c \in 1..Len(calls) :
    Returned(c) =>
      \A k \in 1..Len(calls[c].sessions) :
        calls[c].sessions[k].duration_delta = SumOfDurations(calls[c].sessions[k].cmds)

\* A returned History with a session of two commands of different durations.
C13_Witness ==
  \E c \in 1..Len(calls) :
    /\ Returned(c)
    /\ \E k \in 1..Len(calls[c].sessions) :
         LET cmds == calls[c].sessions[k].cmds
         IN  /\ Len(cmds) = 2
             /\ cmds[1].duration_delta # cmds[2].duration_delta
             /\ calls[c].sessions[k].end_time # None

\* The last operation on the session was its construction or a recalculate
\* call, and it returned.
Recalculated ==
  ses.obj # None /\ ses.op \in {"init", "recalculate"} /\ ses.err = ""

\* The gap between the i-th command and the next one.
Gap(cmds, i) == cmds[i + 1].start_time - cmds[i].end_time

\* The sum of the first i gaps.
RECURSIVE SumOfGaps(_, _)
SumOfGaps(cmds, i) == IF i = 0 THEN 0 ELSE Gap(cmds, i) + SumOfGaps(cmds, i - 1)

\* C14: after recalculate on a session of n commands, between_delta is the
\* sum of the n - 1 gaps from the end of a command to the start of the next;
\* it is zero when n <= 1, and the gaps from the session's start_time to the
\* first command and from the last command to its end_time are not in it.
C14_BetweenIsSumOfGaps ==
  Recalculated =>
    LET o == ses.obj[1]
        n == Len(o.cmds)
    IN  o.between_delta = IF n <= 1 THEN 0 ELSE SumOfGaps(o.cmds, n - 1)

\* A recalculated session of three commands with a start_time before the
\* first command and an end_time after the last.
C14_Witness ==
  /\ Recalculated
  /\ LET o == ses.obj[1]
     IN  /\ Len(o.cmds) = 3
         /\ o.start_time # None /\ o.end_time # None
         /\ o.start_time[1] < o.cmds[1].start_time
         /\ o.cmds[3].end_time < o.end_time[1]
         /\ o.between_delta # 0

\* C15: after recalculate on a session of n commands, avg_between_delta is
\* between_delta divided by n - 1 and floored (to the microsecond, the
\* resolution of a timedelta) when n > 1, and zero otherwise, whatever the
\* sign of between_delta; for three commands it is the floored half of the sum
\* of the two gaps.
C15_AvgBetweenIsFlooredQuotient ==
  Recalculated =>
    LET o == ses.obj[1]
        n == Len(o.cmds)
        b == o.between_delta * 1000000
        a == o.avg_between_delta
    IN  /\ n <= 1 => a = 0
        /\ n > 1 => (a * (n - 1) <= b /\ b < a * (n - 1) + (n - 1))
        /\ n = 3 =>
             LET g == (Gap(o.cmds, 1) + Gap(o.cmds, 2)) * 1000000
             IN  2 * a <= g /\ g < 2 * a + 2

\* A recalculated session of four commands whose gaps have a negative sum
\* that three does not divide.
C15_Witness ==
  /\ Recalculated
  /\ Len(ses.obj[1].cmds) = 4
  /\ ses.obj[1].between_delta < 0
  /\ (ses.obj[1].between_delta * 1000000) % 3 # 0

\* The seconds from 01-01-23 00:00:00 to the stamp of a line or command, as
\* written in the log.
RawStamp(l) == (l.date[2] - 1) * 86400 + l.time[1] * 3600 + l.time[2] * 60 + l.time[3]

\* The sum of the first i gaps between the stamps written in the log.
RECURSIVE SumOfRawGaps(_, _)
SumOfRawGaps(cmds, i) ==
  IF i = 0 THEN 0
  ELSE (RawStamp(cmds[i + 1]) - cmds[i + 1].duration_delta - RawStamp(cmds[i]))
       + SumOfRawGaps(cmds, i - 1)

\* C16: with the adjustment d = change_hours, change_minutes, every session
\* start_time and end_time and every command end_time and start_time is the
\* unadjusted time shifted by d, so that actual, end-of-day and between
\* durations and the durations of the commands are those of the stamps as
\* written.
C16_OffsetIsUniform ==
  \A c \in 1..Len(calls) :
    LET log == LogOf(c)
        S == calls[c].sessions
        d == change_hours * 3600 + change_minutes * 60
    IN  Returned(c) =>
          \A k \in 1..Len(S) :
            LET j == S[k].oid[2]
                e == NextMarker(log, j)
                n == Len(S[k].cmds)
            IN  /\ S[k].start_time = Some(RawStamp(log[j]) + d)
                /\ S[k].end_time # None =>
                     /\ S[k].end_time = Some(RawStamp(log[e]) + d)
                     /\ S[k].actual_delta = RawStamp(log[e]) - RawStamp(log[j])
                     /\ n > 0 => S[k].end_of_day_delta =
                                   RawStamp(log[e]) - RawStamp(S[k].cmds[n])
                /\ S[k].between_delta = IF n <= 1 THEN 0 ELSE SumOfRawGaps(S[k].cmds, n - 1)
                /\ \A m \in 1..n :
                     /\ S[k].cmds[m].end_time = RawStamp(S[k].cmds[m]) + d
                     /\ S[k].cmds[m].start_time =
                          RawStamp(S[k].cmds[m]) + d - S[k].cmds[m].duration_delta
                     /\ S[k].cmds[m].duration_delta =
                          Seconds(S[k].cmds[m].rapid) + Seconds(S[k].cmds[m].feed)
                          + Seconds(S[k].cmds[m].laser)

\* A History parsed under an adjustment of hours and minutes, with a closed
\* session of two commands.
C16_Witness ==
  \E c \in 1..Len(calls) :
    /\ Returned(c) /\ change_hours # 0 /\ change_minutes # 0
    /\ \E k \in 1..Len(calls[c].sessions) :
         /\ calls[c].sessions[k].end_time # None
         /\ Len(calls[c].sessions[k].cmds) = 2

\* C17: in every History returned by from_file the commands of each session
\* are in non-decreasing start_time order, and so are the sessions.
C17_StartTimesAreSorted ==
  \A c \in 1..Len(calls) :
    LET S == calls[c].sessions
    IN  Returned(c) =>
          /\ \A k \in 1..Len(S) : \A m \in 1..(Len(S[k].cmds) - 1) :
               S[k].cmds[m].start_time <= S[k].cmds[m + 1].start_time
          /\ \A k \in 1..(Len(S) - 1) : S[k].start_time[1] <= S[k + 1].start_time[1]

\* C18: from_file on a log without lines raises nothing and returns a History
\* without sessions (which is falsy).
C18_EmptyLogGivesEmptyHistory ==
  \A c \in 1..Len(calls) :
    calls[c].n = 0 =>
      /\ Returned(c)
      /\ Len(calls[c].sessions) = 0
      /\ (c = Len(calls) => history = <<>>)

\* The viewer was started on a log without lines.
C18_Witness ==
  \E c \in 1..Len(calls) : calls[c].n = 0 /\ file = <<>>

\* C19: recalculate on a session without commands, at its construction or
\* later, with or without start_time and end_time, raises nothing and leaves
\* every aggregate and count zero.
C19_EmptySessionIsAllZero ==
  (ses.op = "init" \/ (ses.op = "recalculate" /\ ses.obj[1].cmds = <<>>)) =>
    /\ ses.err = ""
    /\ ses.obj # None
    /\ LET o == ses.obj[1]
       IN  /\ o.duration_delta = 0 /\ o.actual_delta = 0 /\ o.end_of_day_delta = 0
           /\ o.between_delta = 0 /\ o.avg_delta = 0 /\ o.avg_between_delta = 0
           /\ o.count_commands = 0 /\ o.count_files = 0 /\ o.count_command_files = 0

\* C20: recalculate is idempotent: after a recalculate call on a session,
\* whatever its commands and whether or not it has a start_time and an
\* end_time, a second call changes no aggregate and no count.
C20_RecalculateIsIdempotent ==
  (ses.obj # None /\ ses.op = "recalculate") =>
    LET o == ses.obj[1]
        r == recalculate(o)
    IN  /\ r.duration_delta = o.duration_delta /\ r.actual_delta = o.actual_delta
        /\ r.end_of_day_delta = o.end_of_day_delta /\ r.between_delta = o.between_delta
        /\ r.avg_delta = o.avg_delta /\ r.avg_between_delta = o.avg_between_delta
        /\ r.count_commands = o.count_commands /\ r.count_files = o.count_files
        /\ r.count_command_files = o.count_command_files

\* A session recalculated after commands were appended and its end_time set,
\* so that the call changed the aggregates it had.
C20_Witness ==
  /\ ses.obj # None /\ ses.op = "recalculate" /\ ses.err = ""
  /\ Len(ses.obj[1].cmds) >= 2
  /\ ses.obj[1].end_time # None
  /\ ses.obj[1].avg_delta # 0 /\ ses.obj[1].end_of_day_delta # 0

\* The commands of a session that fall under a class.
CountOf(cmds, P(_)) == Cardinality({i \in 1..Len(cmds) : P(cmds[i])})

\* C21: after commands are appended to a Session its aggregates are those of
\* the command list it has now: total, average, between, average-between and
\* end-of-day durations and the three counts are never stale.
C21_AggregatesFollowAppend ==
  (ses.obj # None /\ ses.op = "append") =>
    LET o == ses.obj[1]
        n == Len(o.cmds)
    IN  /\ o.duration_delta = SumOfDurations(o.cmds)
        /\ o.avg_delta * n <= o.duration_delta * 1000000
        /\ o.duration_delta * 1000000 < o.avg_delta * n + n
        /\ o.between_delta = IF n <= 1 THEN 0 ELSE SumOfGaps(o.cmds, n - 1)
        /\ n > 1 => /\ o.avg_between_delta * (n - 1) <= o.between_delta * 1000000
                    /\ o.between_delta * 1000000 < o.avg_between_delta * (n - 1) + (n - 1)
        /\ o.end_of_day_delta = IF o.end_time # None
                                THEN o.end_time[1] - o.cmds[n].end_time ELSE 0
        /\ o.count_commands = CountOf(o.cmds, is_command)
        /\ o.count_command_files = CountOf(o.cmds, is_command_file)
        /\ o.count_files = CountOf(o.cmds, is_user_file)

\* C22: after recalculate, end_of_day_delta is end_time minus the end_time of
\* the last command when the session has a command and an end_time, and zero
\* when it has no command or no end_time.
C22_EndOfDayIsIdleAfterLast ==
  Recalculated =>
    LET o == ses.obj[1]
        n == Len(o.cmds)
    IN  o.end_of_day_delta = IF n >= 1 /\ o.end_time # None
                             THEN o.end_time[1] - o.cmds[n].end_time
                             ELSE 0

\* A recalculated session closed at 12:40:00 whose last command, run for more
\* than a minute, was logged at 12:36:10: 3 minutes 50 seconds.
C22_Witness ==
  /\ Recalculated
  /\ ses.obj[1].end_time # None
  /\ Len(ses.obj[1].cmds) >= 2
  /\ ses.obj[1].cmds[Len(ses.obj[1].cmds)].time = <<12, 36, 10>>
  /\ ses.obj[1].end_of_day_delta = 230

\* C23: after recalculate, actual_delta is end_time minus start_time when the
\* session has an end_time and zero when it has none, whatever its commands.
C23_ActualIsEndMinusStart ==
  Recalculated =>
    LET o == ses.obj[1]
    IN  o.actual_delta = IF o.end_time # None THEN o.end_time[1] - o.start_time[1] ELSE 0

\* A recalculated session with commands, started 12:30:00 and closed
\* 12:40:00: 10 minutes.
C23_Witness ==
  /\ Recalculated
  /\ ses.obj[1].cmds # <<>>
  /\ ses.obj[1].start_time # None /\ ses.obj[1].end_time # None
  /\ ses.obj[1].actual_delta = 600

\* C24: after recalculate, avg_delta is duration_delta divided by the number
\* of commands and floored (in microseconds, the unit of a timedelta), so
\* that avg * count <= total < (avg + 1) * count; it is zero for a session
\* without commands.
C24_AvgIsFlooredQuotient ==
  Recalculated =>
    LET o == ses.obj[1]
        n == Len(o.cmds)
        total == o.duration_delta * 1000000
    IN  /\ n = 0 => o.avg_delta = 0
        /\ n >= 1 => (o.avg_delta * n <= total /\ total < (o.avg_delta + 1) * n)

\* A recalculated session of three commands whose total duration three does
\* not divide.
C24_Witness ==
  /\ Recalculated
  /\ Len(ses.obj[1].cmds) = 3
  /\ (ses.obj[1].duration_delta * 1000000) % 3 # 0
  /\ ses.obj[1].avg_delta > 0

\* The status texts that contain 'ok' in some casing.
OkStatuses == {"OK", "Ok"}

\* C25: has_error() answers true exactly when a command the session has now
\* has a status without 'ok' in any casing: false for a session without
\* commands, and counting commands appended since the last recalculate.
C25_HasErrorFollowsCommands ==
  ses.query.name = "has_error" =>
    /\ ses.query.err = ""
    /\ ses.query.res =
         Some(\E i \in 1..Len(ses.obj[1].cmds) : ses.obj[1].cmds[i].status \notin OkStatuses)

\* has_error() answered true on a session whose last command, appended since
\* the last recalculate, is the only one without 'ok'.
C25_Witness ==
  /\ ses.query.name = "has_error" /\ ses.query.res = Some(TRUE)
  /\ ses.op = "append"
  /\ LET cmds == ses.obj[1].cmds
     IN  /\ Len(cmds) >= 2
         /\ cmds[Len(cmds)].status = "Aborted"
         /\ \A i \in 1..(Len(cmds) - 1) : cmds[i].status \in OkStatuses
         /\ \E i \in 1..(Len(cmds) - 1) : cmds[i].status = "Ok"

\* C26: every command is of exactly one of the classes plain command,
\* file-command and user file, and after recalculate the three counts are the
\* sizes of the classes, so that they add up to the number of commands.
C26_CountsPartitionCommands ==
  Recalculated =>
    LET o == ses.obj[1]
    IN  /\ \A i \in 1..Len(o.cmds) :
             Cardinality({P \in {"command", "command_file", "user_file"} :
                            \/ P = "command" /\ is_command(o.cmds[i])
                            \/ P = "command_file" /\ is_command_file(o.cmds[i])
                            \/ P = "user_file" /\ is_user_file(o.cmds[i])}) = 1
        /\ o.count_commands = CountOf(o.cmds, is_command)
        /\ o.count_command_files = CountOf(o.cmds, is_command_file)
        /\ o.count_files = CountOf(o.cmds, is_user_file)
        /\ o.count_commands + o.count_command_files + o.count_files = Len(o.cmds)

\* A recalculated session with a command of each class.
C26_Witness ==
  /\ Recalculated
  /\ ses.obj[1].count_commands >= 1
  /\ ses.obj[1].count_command_files >= 1
  /\ ses.obj[1].count_files >= 1

\* The 'starting' markers of a log whose session is kept: the next marker
\* line is an 'exiting' marker, or there is none.
KeptStarts(log) ==
  {j \in 1..Len(log) :
     /\ Kind(log[j]) = "starting"
     /\ \/ NextMarker(log, j) = Len(log) + 1
        \/ Kind(log[NextMarker(log, j)]) = "exiting"}

\* C27: the History returned has one session for each 'starting' marker that
\* is followed by an 'exiting' marker or by the end of input before any other
\* 'starting' marker; a session replaced by a 'starting' marker read while it
\* was open is not in the History, nor is any command appended to it.
C27_ReplacedSessionIsDropped ==
  \A c \in 1..Len(calls) :
    LET log == LogOf(c)
        S == calls[c].sessions
    IN  Returned(c) =>
          /\ Len(S) = Cardinality(KeptStarts(log))
          /\ \A j \in 1..Len(log) :
               (Kind(log[j]) = "starting" /\ j \notin KeptStarts(log)) =>
                 /\ \A k \in 1..Len(S) : S[k].oid # <<c, j>>
                 /\ \A cmd \in CommandsOf(S) : cmd.oid[2] \notin DataAfter(log, j)

\* A History returned for a log in which a session with a command was
\* replaced by a second 'starting' marker.
C27_Witness ==
  \E c \in 1..Len(calls) : \E j \in 1..calls[c].n :
    /\ Returned(c)
    /\ Kind(file[j]) = "starting"
    /\ j \notin KeptStarts(LogOf(c))
    /\ DataAfter(LogOf(c), j) # {}
    /\ Len(calls[c].sessions) = 1

\* C28: an 'exiting' marker read while no session is open, well-formed or
\* not, makes from_file fail at that line: no History is returned.
C28_StrayExitAborts ==
  \A c \in 1..Len(calls) : \A i \in 1..calls[c].n :
    (Kind(file[i]) = "exiting" /\ ~OpenAt(LogOf(c), i)) =>
      /\ ~Returned(c)
      /\ calls[c].sessions = <<>>
      /\ Reached(c, i) => calls[c].errline = i

\* A call that failed with AttributeError on a well-formed 'exiting' marker
\* read directly after the 'exiting' marker that closed a session.
C28_Witness ==
  \E c \in 1..Len(calls) : \E i \in 3..calls[c].n :
    /\ calls[c].errline = i /\ calls[c].err = "AttributeError"
    /\ Kind(file[i]) = "exiting" /\ file[i].nf = 3
    /\ Kind(file[i - 1]) = "exiting"
    /\ Kind(file[i - 2]) = "starting"

\* C29: in a History returned by from_file every session but the last has an
\* end_time, the last one has none exactly when the end of input was reached
\* with a session open, and no session is in the History twice.
C29_OnlyLastSessionMayBeOpen ==
  \A c \in 1..Len(calls) :
    LET log == LogOf(c)
        S == calls[c].sessions
    IN  Returned(c) =>
          /\ \A k \in 1..(Len(S) - 1) : S[k].end_time # None
          /\ OpenAt(log, Len(log) + 1) => (S # <<>> /\ S[Len(S)].end_time = None)
          /\ ~OpenAt(log, Len(log) + 1) => \A k \in 1..Len(S) : S[k].end_time # None
          /\ \A k \in 1..Len(S) : \A m \in 1..Len(S) : S[k].oid = S[m].oid => k = m

\* A History with a closed session followed by the session open at the end
\* of input.
C29_Witness ==
  \E c \in 1..Len(calls) :
    /\ Returned(c)
    /\ Len(calls[c].sessions) = 2
    /\ calls[c].sessions[1].end_time # None
    /\ calls[c].sessions[2].end_time = None
    /\ OpenAt(LogOf(c), calls[c].n + 1)

\* The sum of time_before over the first i commands of a session.
RECURSIVE SumOfTimeBefore(_, _)
SumOfTimeBefore(s, i) ==
  IF i = 0 THEN 0 ELSE time_before(s, s.cmds[i]).res[1] + SumOfTimeBefore(s, i - 1)

\* The relations of time_before and time_after on a session.
TimesAgree(s) ==
  LET n == Len(s.cmds)
  IN  /\ n >= 1 => /\ time_before(s, s.cmds[1]) = [err |-> "", res |-> Some(0)]
                   /\ time_after(s, s.cmds[n]) = [err |-> "", res |-> Some(0)]
      /\ \A i \in 1..(n - 1) :
           /\ time_after(s, s.cmds[i]) =
                [err |-> "", res |-> Some(s.cmds[i + 1].start_time - s.cmds[i].end_time)]
           /\ time_before(s, s.cmds[i + 1]) = time_after(s, s.cmds[i])
      /\ time_before(s, StrayCommand) = [err |-> "ValueError", res |-> None]
      /\ time_after(s, StrayCommand) = [err |-> "ValueError", res |-> None]

\* C30: in a session of commands c[1..n], time_before of the first and
\* time_after of the last are zero, time_after of c[i] and time_before of
\* c[i+1] are both c[i+1].start_time - c[i].end_time, time_before summed over
\* the commands is between_delta after recalculate, both raise ValueError for
\* a command that is not in the session, and a call of either changes
\* nothing in the session.  (The relations are looked at whenever a step
\* made or changed the session, the answers whenever one was given.)
C30_TimeBeforeAndAfter ==
  [][ses'.obj # None =>
       /\ ses'.obj # ses.obj =>
            /\ TimesAgree(ses'.obj[1])
            /\ (ses'.op \in {"init", "recalculate"} /\ ses'.err = "") =>
                 SumOfTimeBefore(ses'.obj[1], Len(ses'.obj[1].cmds)) = ses'.obj[1].between_delta
       /\ ses'.query.name \in {"time_before", "time_after"} =>
            /\ ses'.obj = ses.obj /\ ses'.op = ses.op /\ ses'.err = ses.err
            /\ ses'.query.err = "ValueError" <=>
                 \A i \in 1..Len(ses.obj[1].cmds) :
                   ses.obj[1].cmds[i].oid # ses'.query.arg[1].oid
            /\ ses'.query.err = "" =>
                 ses'.query.res = IF ses'.query.name = "time_before"
                                  THEN time_before(ses.obj[1], ses'.query.arg[1]).res
                                  ELSE time_after(ses.obj[1], ses'.query.arg[1]).res
     ]_vars

\* The tooltip of the second of three commands of a recalculated session was
\* given the time after it, which is not zero.
C30_Witness ==
  /\ Recalculated
  /\ Len(ses.obj[1].cmds) = 3
  /\ ses.query.name = "time_after"
  /\ ses.query.arg = Some(ses.obj[1].cmds[2])
  /\ ses.query.res = Some(ses.obj[1].cmds[3].start_time - ses.obj[1].cmds[2].end_time)
  /\ ses.query.res # Some(0)
  /\ ses.obj[1].between_delta # 0

====
